---- MODULE Spec2Model ----
(***************************************************************************)
(* Model of the Zipf benchmark driver (src/bench/zipf.go): Zipf.Init and   *)
(* Zipf.Run, the ratio-to-offset conversion getZipfOffset, and the parts   *)
(* of math/rand (Rand, Zipf) and of the package (HasClient, initIndex,     *)
(* PermutationGenerator, Stats) that the two methods drive.                *)
(***************************************************************************)
EXTENDS Integers, Sequences, FiniteSets, TLC

(***************************************************************************)
(* float64 values.  Finite values are exact rationals n/d (d > 0, lowest   *)
(* terms); the IEEE specials +Inf, -Inf and NaN are kept, because          *)
(* getZipfOffset produces them for ratio = 1.  Rounding is not modelled.   *)
(***************************************************************************)
Abs(x) == IF x < 0 THEN -x ELSE x

RECURSIVE GCD(_, _)
GCD(a, b) == IF b = 0 THEN a ELSE GCD(b, a % b)

Fin(n, d) ==
    LET g == GCD(Abs(n), Abs(d))
        sg == IF d < 0 THEN -1 ELSE 1
    IN  [t |-> "fin", n |-> sg * (n \div g), d |-> sg * (d \div g)]

PosInf == [t |-> "inf", n |-> 1, d |-> 0]
NegInf == [t |-> "inf", n |-> -1, d |-> 0]
NaN == [t |-> "nan", n |-> 0, d |-> 0]

FInt(i) == Fin(i, 1)
IsNaN(a) == a.t = "nan"
IsInf(a) == a.t = "inf"
IsFin(a) == a.t = "fin"
Sign(a) == IF a.n > 0 THEN 1 ELSE IF a.n < 0 THEN -1 ELSE 0
InfOf(s) == IF s < 0 THEN NegInf ELSE PosInf

FNeg(a) == IF IsNaN(a) THEN NaN ELSE [a EXCEPT !.n = -a.n]

FAdd(a, b) ==
    IF IsNaN(a) \/ IsNaN(b) THEN NaN
    ELSE IF IsInf(a) /\ IsInf(b) THEN (IF a.n = b.n THEN a ELSE NaN)
    ELSE IF IsInf(a) THEN a
    ELSE IF IsInf(b) THEN b
    ELSE Fin(a.n * b.d + b.n * a.d, a.d * b.d)

FSub(a, b) == FAdd(a, FNeg(b))

FMul(a, b) ==
    IF IsNaN(a) \/ IsNaN(b) THEN NaN
    ELSE IF IsInf(a) \/ IsInf(b)
         THEN (IF Sign(a) = 0 \/ Sign(b) = 0 THEN NaN ELSE InfOf(Sign(a) * Sign(b)))
    ELSE Fin(a.n * b.n, a.d * b.d)

\* a zero divisor is +0 in every division the program performs (1 - z with z = 1)
FDiv(a, b) ==
    IF IsNaN(a) \/ IsNaN(b) THEN NaN
    ELSE IF IsInf(a) THEN (IF IsInf(b) THEN NaN
                           ELSE InfOf(a.n * (IF Sign(b) < 0 THEN -1 ELSE 1)))
    ELSE IF IsInf(b) THEN FInt(0)
    ELSE IF b.n = 0 THEN (IF a.n = 0 THEN NaN ELSE InfOf(Sign(a)))
    ELSE Fin(a.n * b.d, a.d * b.n)

\* every comparison with NaN is false
FLt(a, b) ==
    IF IsNaN(a) \/ IsNaN(b) THEN FALSE
    ELSE IF IsInf(a) THEN a.n < 0 /\ ~(IsInf(b) /\ b.n < 0)
    ELSE IF IsInf(b) THEN b.n > 0
    ELSE a.n * b.d < b.n * a.d

FEq(a, b) == ~IsNaN(a) /\ ~IsNaN(b) /\ a = b
FLe(a, b) == FLt(a, b) \/ FEq(a, b)

\* math.Floor
FFloor(a) == IF IsFin(a) THEN FInt(a.n \div a.d) ELSE a

\* the exact r-th root of a natural number (the model's inputs have one)
IntRoot(a, r) == IF r = 1 THEN a ELSE CHOOSE x \in 0..a : x ^ r = a

\* x^(p/q) for finite x > 0
RatPow(x, p, q) ==
    IF p >= 0 THEN Fin(IntRoot(x.n ^ p, q), IntRoot(x.d ^ p, q))
    ELSE Fin(IntRoot(x.d ^ (-p), q), IntRoot(x.n ^ (-p), q))

\* math.Pow(x, y), its special cases in the order math.Pow tests them:
\* Pow(x, 0) = 1 and Pow(1, y) = 1 for any other argument, NaN included
Pow(x, y) ==
    IF y = FInt(0) \/ x = FInt(1) THEN FInt(1)
    ELSE IF IsNaN(x) \/ IsNaN(y) THEN NaN
    ELSE IF IsInf(y)
         THEN (IF IsInf(x) THEN (IF y.n > 0 THEN PosInf ELSE FInt(0))
               ELSE IF Abs(x.n) = x.d THEN FInt(1)
               ELSE IF (Abs(x.n) < x.d) = (y.n > 0) THEN FInt(0) ELSE PosInf)
    ELSE IF IsInf(x)
         THEN (IF x.n > 0 THEN (IF y.n > 0 THEN PosInf ELSE FInt(0))
               ELSE (IF y.n < 0 THEN FInt(0) ELSE InfOf(IF y.d = 1 /\ y.n % 2 = 1 THEN -1 ELSE 1)))
    ELSE IF x.n = 0 THEN (IF y.n < 0 THEN PosInf ELSE FInt(0))
    ELSE IF x.n < 0
         THEN (IF y.d # 1 THEN NaN
               ELSE FMul(FInt(IF y.n % 2 = 1 THEN -1 ELSE 1), RatPow(FNeg(x), y.n, 1)))
    ELSE RatPow(x, y.n, y.d)

\* math.Exp(y * math.Log(x)), the form rand.Zipf computes powers in
ExpLog(x, y) ==
    IF IsNaN(x) \/ IsNaN(y) THEN NaN
    ELSE IF Sign(x) < 0 THEN NaN
    ELSE IF Sign(x) = 0 \/ IsInf(x)
         THEN (IF Sign(y) = 0 THEN NaN
               ELSE IF (Sign(x) = 0) = (Sign(y) > 0) THEN FInt(0) ELSE PosInf)
    ELSE IF IsInf(y)
         THEN (IF x.n = x.d THEN NaN
               ELSE IF (x.n < x.d) = (y.n > 0) THEN FInt(0) ELSE PosInf)
    ELSE IF Sign(y) = 0 THEN FInt(1)
    ELSE RatPow(x, y.n, y.d)

(***************************************************************************)
(* getZipfOffset: z = ratio^(1/exp); offset = z * (N-1) / (1 - z).         *)
(***************************************************************************)
getZipfOffset(N, exp, ratio) ==
    LET z == Pow(ratio, FDiv(FInt(1), exp))
    IN  FDiv(FMul(z, FInt(N - 1)), FSub(FInt(1), z))

(***************************************************************************)
(* Bounds and input sets.                                                  *)
(***************************************************************************)
MaxIter == 2
MaxSeed == 1
MaxInits == 2
MaxRejects == 1

Operations == {"set", "clear", "flip"}
\* agent indices: the first agent and another
Agents == {0, 1}
MaxAgent == CHOOSE a \in Agents : \A x \in Agents : x <= a
HostCounts == {0, 1}
ClientOutcomes == {"ok", "err"}

\* the seeds a driver can reach
Seeds == 0..(MaxSeed + MaxInits * MaxAgent)

Dom(N, exp, ratio) == [N |-> N, exp |-> exp, ratio |-> ratio]

\* domains whose samplers rand.NewZipf builds (exponent > 1, offset >= 1)
GoodDomains ==
    { Dom(2, FInt(2), Fin(1, 4)),      \* offset 1
      Dom(2, FInt(2), Fin(9, 16)) }    \* offset 3

\* domains the specification accepts and rand.NewZipf refuses
RefusedDomains ==
    { Dom(2, FInt(2), Fin(1, 16)),     \* offset 1/3 < 1
      Dom(3, Fin(1, 2), Fin(1, 4)) }   \* exponent 1/2 <= 1

\* domains the specification rejects
InvalidDomains ==
    { Dom(3, FInt(0), Fin(1, 4)),      \* exponent 0
      Dom(3, FInt(2), FInt(0)),        \* ratio 0
      Dom(3, FInt(2), FInt(1)),        \* ratio 1: offset +Inf
      Dom(3, NaN, FInt(1)),            \* exponent NaN, ratio 1: offset +Inf
      Dom(1, FInt(2), Fin(1, 4)) }     \* domain size 1

DomainCfgs == GoodDomains \cup RefusedDomains \cup InvalidDomains

\* what the specification calls a valid domain
SpecValid(dm) ==
    /\ FLt(FInt(0), dm.exp)
    /\ FLt(FInt(0), dm.ratio) /\ FLt(dm.ratio, FInt(1))
    /\ dm.N >= 2

(***************************************************************************)
(* math/rand.  The values a source yields are a function of its seed and   *)
(* of nothing else; which function is left open.  A Rand is a seed with    *)
(* the number of values it has yielded.  What a round of Uint64 does with  *)
(* a value r of [0, 1) depends only on where r lies among the thresholds   *)
(* of the sampler; the thresholds of the two samplers of GoodDomains, both *)
(* on ranks 0 and 1, cut [0, 1) at                                         *)
(*     15/76 = 0.1974   4/19 = 0.2105   63/176 = 0.3580   4/11 = 0.3636    *)
(* and FloatValues has one value inside each of the five intervals:        *)
(*     value      offset 1                offset 3                         *)
(*     1/8        rank 1                  rank 1                           *)
(*     13/64      candidate 1 rejected    rank 1                           *)
(*     1/4        rank 0                  rank 1                           *)
(*     23/64      rank 0                  candidate 1 rejected             *)
(*     1/2        rank 0                  rank 0                           *)
(* tp[seed][i] is what is known of the i-th value of the stream of seed:   *)
(* the values of FloatValues it can be, given the rounds that have read    *)
(* it.  A position no round has read can hold any value.                   *)
(***************************************************************************)
FloatValues == { Fin(1, 8), Fin(13, 64), Fin(1, 4), Fin(23, 64), Fin(1, 2) }

NIL == [t |-> "nil"]

NewSource(seed) == [seed |-> seed, pos |-> 0]

\* the values the stream of rnd's seed can yield next
May(tp, rnd) ==
    IF rnd.pos < Len(tp[rnd.seed]) THEN tp[rnd.seed][rnd.pos + 1] ELSE FloatValues

\* Float64: the next value of the stream, and the source advanced
Float64(tp, rnd) ==
    { [val |-> r, next |-> [rnd EXCEPT !.pos = @ + 1]] : r \in May(tp, rnd) }

\* rand.Zipf.h and rand.Zipf.hinv
ZipfH(z, x) == FMul(ExpLog(FAdd(z.v, x), z.oneminusQ), z.oneminusQinv)
ZipfHinv(z, x) == FSub(ExpLog(FMul(z.oneminusQ, x), z.oneminusQinv), z.v)

\* one round of the loop of rand.Zipf.Uint64 on the stream value r: the
\* candidate k and whether one of the two tests accepts it
Candidate(z, r) ==
    LET ur == FAdd(z.hxm, FMul(r, z.hx0minusHxm))
        x == ZipfHinv(z, ur)
        k == FFloor(FAdd(x, Fin(1, 2)))
    IN  [k |-> k,
         accept |-> \/ FLe(FSub(k, x), z.s)
                    \/ FLe(FSub(ZipfH(z, FAdd(k, Fin(1, 2))), ExpLog(FAdd(k, z.v), FNeg(z.q))), ur)]

\* rand.NewZipf(r, s, v, imax): nil when s <= 1 or v < 1.  The *Rand is not
\* stored in the record: both samplers of a driver use the driver's one rnd.
ZipfParams(s, v, imax) ==
    LET omq == FSub(FInt(1), s)
        z0 == [t |-> "zipf", imax |-> imax, v |-> v, q |-> s,
               oneminusQ |-> omq, oneminusQinv |-> FDiv(FInt(1), omq)]
        hxm == ZipfH(z0, FAdd(FInt(imax), Fin(1, 2)))
    IN  [t |-> "zipf", imax |-> imax, v |-> v, q |-> s,
         oneminusQ |-> omq, oneminusQinv |-> FDiv(FInt(1), omq),
         hxm |-> hxm,
         hx0minusHxm |-> FSub(FSub(ZipfH(z0, Fin(1, 2)), ExpLog(v, FNeg(s))), hxm),
         s |-> FSub(FInt(1),
                    ZipfHinv(z0, FSub(ZipfH(z0, Fin(3, 2)),
                                      ExpLog(FAdd(v, FInt(1)), FNeg(s)))))]

\* The sampler's parameters fix what a round of Uint64 does with each stream
\* value; round[r] is kept with the sampler, computed once.
WithRounds(z) ==
    [t |-> "zipf", imax |-> z.imax, v |-> z.v, q |-> z.q, s |-> z.s,
     round |-> [r \in FloatValues |-> Candidate(z, r)]]

NewZipf(s, v, imax) ==
    IF FLe(s, FInt(1)) \/ FLt(v, FInt(1)) THEN NIL
    ELSE WithRounds(ZipfParams(s, v, imax))

\* with an offset or an exponent that is not finite the candidate is NaN
\* whatever the stream yields, both tests are false and the loop never ends
NeverAccepts(z) == \A r \in FloatValues : ~z.round[r].accept

\* what is known of the stream once sampler z has done with the value the
\* source rnd yields what it does with r: the value is one z treats as r
Observed(z, tp, rnd, r) ==
    LET alike == { x \in May(tp, rnd) : z.round[x] = z.round[r] }
    IN  [tp EXCEPT ![rnd.seed] =
            IF rnd.pos < Len(@) THEN [@ EXCEPT ![rnd.pos + 1] = alike] ELSE Append(@, alike)]

\* one value for each thing sampler z can do with the next value of rnd
Rounds(z, tp, rnd) ==
    { f \in Float64(tp, rnd) :
        \A g \in Float64(tp, rnd) :
            z.round[g.val] = z.round[f.val] => ~FLt(g.val, f.val) }

\* rand.Zipf.Uint64: rejection-inversion.  Each round takes one Float64 from
\* the stream; the loop ends at the first accepted candidate.  The results
\* are one for each course the loop can take on the stream of rnd's seed,
\* with what the course has made known of the stream; left is the number of
\* candidates the call may still reject, and the courses that reject more
\* are left out.
RECURSIVE ZipfLoop(_, _, _, _)
ZipfLoop(z, tp, rnd, left) ==
    UNION {
        LET c == z.round[f.val]
            seen == Observed(z, tp, rnd, f.val)
        IN  IF c.accept
            THEN {[outcome |-> "ok", k |-> c.k.n, rnd |-> f.next, tape |-> seen]}
            ELSE IF left = 0 THEN {}
            ELSE ZipfLoop(z, seen, f.next, left - 1)
        : f \in Rounds(z, tp, rnd) }

\* a nil receiver panics
Uint64(z, tp, rnd) ==
    IF z = NIL THEN {[outcome |-> "panic", k |-> 0, rnd |-> rnd, tape |-> tp]}
    ELSE IF NeverAccepts(z) THEN {[outcome |-> "hang", k |-> 0, rnd |-> rnd, tape |-> tp]}
    ELSE ZipfLoop(z, tp, rnd, MaxRejects)

(***************************************************************************)
(* PermutationGenerator: a bijection on [0, N) keyed by (N, seed).         *)
(***************************************************************************)
NewPermutationGenerator(N, seed) == [t |-> "perm", m |-> N, seed |-> seed]

PermNext(p, rank) == (rank + p.seed) % p.m

(***************************************************************************)
(* The Zipf value.                                                         *)
(***************************************************************************)
Config(row, col, op, iters, seed) ==
    [BaseBitmapID |-> 10, BaseProfileID |-> 20,
     BitmapIDRange |-> row.N, ProfileIDRange |-> col.N,
     Iterations |-> iters, Seed |-> seed,
     BitmapExponent |-> row.exp, BitmapRatio |-> row.ratio,
     ProfileExponent |-> col.exp, ProfileRatio |-> col.ratio,
     Operation |-> op]

\* a Zipf value as json.Unmarshal leaves it: the unexported fields are nil
NewDriver(c) ==
    [Name |-> "", BaseBitmapID |-> c.BaseBitmapID, BaseProfileID |-> c.BaseProfileID,
     BitmapIDRange |-> c.BitmapIDRange, ProfileIDRange |-> c.ProfileIDRange,
     Iterations |-> c.Iterations, Seed |-> c.Seed,
     BitmapExponent |-> c.BitmapExponent, BitmapRatio |-> c.BitmapRatio,
     ProfileExponent |-> c.ProfileExponent, ProfileRatio |-> c.ProfileRatio,
     Operation |-> c.Operation,
     rnd |-> NIL, bitmapRng |-> NIL, profileRng |-> NIL,
     bitmapPerm |-> NIL, profilePerm |-> NIL, client |-> "nil"]

RowDomain(bb) == Dom(bb.BitmapIDRange, bb.BitmapExponent, bb.BitmapRatio)
ColDomain(bb) == Dom(bb.ProfileIDRange, bb.ProfileExponent, bb.ProfileRatio)

(***************************************************************************)
(* State.  b[d] is driver d's Zipf value; run[d] is the state of its Run   *)
(* call (position, loop counter, stats, result map) with a record of what  *)
(* the call did; initLog[d] is the position of its Init call, while one is *)
(* in progress, with a record of what its latest Init did; ctxDone[d] is   *)
(* the Done signal of the context handed to Run; tape[seed] is what the    *)
(* draws made so far have made known of the stream of a source seeded      *)
(* seed.  Init and Run wait in the calls they make to other hosts          *)
(* (initIndex, the client's Init, ExecuteQuery): each wait is a position   *)
(* of its own, at which the other driver and the caller take steps.        *)
(***************************************************************************)
VARIABLES b, run, initLog, ctxDone, tape

vars == <<b, run, initLog, ctxDone, tape>>

\* the Zipf values there are
Drivers == DOMAIN b

NoError == [kind |-> "nil", value |-> ""]
UnsupportedOperation(op) == [kind |-> "Unsupported operation", value |-> op]
ClientError == [kind |-> "client init", value |-> ""]
IndexError == [kind |-> "initIndex", value |-> ""]

NoResults == [error |-> "", stats |-> -1]

IdleRun ==
    [pc |-> "idle", n |-> 0, s |-> 0, operation |-> "", results |-> NoResults,
     calls |-> 0, okCalls |-> 0, queries |-> <<>>, draws |-> <<>>, late |-> 0,
     rndAtStart |-> NIL]

\* most: the number of Inits the harness calls on the driver
NoInit(seed, most) ==
    [calls |-> 0, most |-> most, baseSeed |-> seed, seedIn |-> seed, agentNum |-> 0,
     pc |-> "idle", outcome |-> "none", err |-> NoError, built |-> 0,
     provisioned |-> FALSE, provLogged |-> FALSE,
     clientInit |-> FALSE, clientErr |-> NoError, clientBefore |-> "nil"]

(***************************************************************************)
(* Zipf.Init                                                               *)
(***************************************************************************)
\* lines 54-57: the two offsets and the two samplers
NewSamplers(bb) ==
    LET bitmapOffset == getZipfOffset(bb.BitmapIDRange, bb.BitmapExponent, bb.BitmapRatio)
        profileOffset == getZipfOffset(bb.ProfileIDRange, bb.ProfileExponent, bb.ProfileRatio)
    IN  [bitmapRng |-> NewZipf(bb.BitmapExponent, bitmapOffset, bb.BitmapIDRange - 1),
         profileRng |-> NewZipf(bb.ProfileExponent, profileOffset, bb.ProfileIDRange - 1)]

\* a source created once and kept by later Inits
BuildSamplersKeep(bb, zs) ==
    [bb EXCEPT !.rnd = IF bb.rnd = NIL THEN NewSource(bb.Seed) ELSE bb.rnd,
               !.bitmapRng = zs.bitmapRng,
               !.profileRng = zs.profileRng,
               !.bitmapPerm = NewPermutationGenerator(bb.BitmapIDRange, bb.Seed),
               !.profilePerm = NewPermutationGenerator(bb.ProfileIDRange, bb.Seed + 1)]

\* lines 53-60: one source for both samplers zs, then the two permutations
BuildSamplers(bb, zs) ==
    [bb EXCEPT !.rnd = NewSource(bb.Seed),
               !.bitmapRng = zs.bitmapRng,
               !.profileRng = zs.profileRng,
               !.bitmapPerm = NewPermutationGenerator(bb.BitmapIDRange, bb.Seed),
               !.profilePerm = NewPermutationGenerator(bb.ProfileIDRange, bb.Seed + 1)]

\* the number of samplers and permutations lines 53-60 have built
Built(bb) == Cardinality({f \in {"bitmapRng", "profileRng", "bitmapPerm", "profilePerm"} :
                             bb[f] # NIL}) + (IF bb.rnd # NIL THEN 1 ELSE 0)

\* Init without the check of the operation
InitBeginNoCheck(bb, agentNum, nhosts, zs) ==
    LET built == BuildSamplers([bb EXCEPT !.Name = "zipf", !.Seed = bb.Seed + agentNum], zs)
    IN  IF nhosts = 0
        THEN [b |-> built, pc |-> "idle", outcome |-> "panicked", err |-> NoError]
        ELSE [b |-> built, pc |-> "initIndex", outcome |-> "none", err |-> NoError]

\* lines 51-65, as far as the call of initIndex: the name, the seed, the
\* source, samplers (zs) and permutations, then the check of the operation,
\* then hosts[0], which panics on an empty list
InitBegin(bb, agentNum, nhosts, zs) ==
    LET built == BuildSamplers([bb EXCEPT !.Name = "zipf", !.Seed = bb.Seed + agentNum], zs)
    IN  IF bb.Operation # "set" /\ bb.Operation # "clear"
        THEN [b |-> built, pc |-> "idle", outcome |-> "returned",
              err |-> UnsupportedOperation(bb.Operation)]
        ELSE IF nhosts = 0
        THEN [b |-> built, pc |-> "idle", outcome |-> "panicked", err |-> NoError]
        ELSE [b |-> built, pc |-> "initIndex", outcome |-> "none", err |-> NoError]

\* initIndex's error returned instead of printed
InitIndexReturnFatal(il, provOk) ==
    IF provOk
    THEN [il EXCEPT !.pc = "clientInit", !.provisioned = TRUE, !.provLogged = FALSE]
    ELSE [il EXCEPT !.pc = "idle", !.provisioned = TRUE, !.provLogged = TRUE,
                    !.outcome = "returned", !.err = IndexError]

\* lines 65-70, from the return of initIndex to the call of the client's
\* Init: the error of initIndex is only printed
InitIndexReturn(il, provOk) ==
    [il EXCEPT !.pc = "clientInit", !.provisioned = TRUE, !.provLogged = ~provOk]

\* HasClient.Init: assigns the client and returns the error of creating it
ClientInit(bb, clientOut) ==
    [client |-> IF clientOut = "ok" THEN "set" ELSE "nil",
     err |-> IF clientOut = "ok" THEN NoError ELSE ClientError]

\* line 70: Init returns what the client's Init returned
InitReturn(il, ci) ==
    [il EXCEPT !.pc = "idle", !.outcome = "returned", !.err = ci.err,
               !.clientInit = TRUE, !.clientErr = ci.err]

\* tape records the stream of a seed as long as a driver holds a source with
\* the seed or can still be given one: Init only adds to Seed, at most
\* MaxAgent a call.  No driver draws from the stream of another seed again.
Holds(bb, seed) == bb.rnd # NIL /\ bb.rnd.seed = seed

CanReach(bb, il, seed) ==
    /\ il.calls < il.most
    /\ bb.Seed <= seed /\ seed <= bb.Seed + (il.most - il.calls) * MaxAgent

Known(tp, bs, ils) ==
    [seed \in Seeds |->
        IF \E e \in DOMAIN bs : Holds(bs[e], seed) \/ CanReach(bs[e], ils[e], seed)
        THEN tp[seed] ELSE <<>>]

\* Init(hosts, agentNum) is called on a driver that is in no call, and runs
\* to its return or to its call of initIndex; agentNum is one of agents and
\* len(hosts) one of hostCounts.  The Run that follows has a record and a
\* context of its own.
ZipfInit(d, agents, hostCounts) ==
    /\ run[d].pc \in {"idle", "returned"}
    /\ initLog[d].pc = "idle"
    /\ initLog[d].calls < initLog[d].most
    /\ \E zs \in {NewSamplers(b[d])} :
       \E agentNum \in agents, nhosts \in hostCounts :
       \E beg \in {InitBegin(b[d], agentNum, nhosts, zs)} :
           /\ b' = [b EXCEPT ![d] = beg.b]
           /\ initLog' = [initLog EXCEPT ![d] =
                  [calls |-> @.calls + 1, most |-> @.most, baseSeed |-> @.baseSeed,
                   seedIn |-> b[d].Seed, agentNum |-> agentNum,
                   pc |-> beg.pc, outcome |-> beg.outcome, err |-> beg.err,
                   built |-> Built(beg.b),
                   provisioned |-> FALSE, provLogged |-> FALSE,
                   clientInit |-> FALSE, clientErr |-> NoError,
                   clientBefore |-> b[d].client]]
           /\ run' = [run EXCEPT ![d] =
                  [IdleRun EXCEPT !.pc = IF beg.outcome = "panicked" THEN "panicked" ELSE "idle"]]
           /\ ctxDone' = [ctxDone EXCEPT ![d] = FALSE]
           /\ tape' = Known(tape, b', initLog')

\* initIndex returns; what it answers is the environment's choice
ZipfInitIndex(d, provOk) ==
    /\ initLog[d].pc = "initIndex"
    /\ initLog' = [initLog EXCEPT ![d] = InitIndexReturn(initLog[d], provOk)]
    /\ UNCHANGED <<b, run, ctxDone, tape>>

\* the client's Init returns, and Init with it
ZipfClientInit(d, clientOut) ==
    /\ initLog[d].pc = "clientInit"
    /\ \E ci \in {ClientInit(b[d], clientOut)} :
           /\ b' = [b EXCEPT ![d].client = ci.client]
           /\ initLog' = [initLog EXCEPT ![d] = InitReturn(initLog[d], ci)]
    /\ UNCHANGED <<run, ctxDone, tape>>

(***************************************************************************)
(* Zipf.Run                                                                *)
(***************************************************************************)
\* Run without the client check
RunEnterNoCheck(bb, r) ==
    [r EXCEPT !.pc = "running", !.n = 0, !.s = 0,
              !.operation = IF bb.Operation = "clear" THEN "ClearBit" ELSE "SetBit"]

\* lines 75-85: the client check, the operation name, the new Stats
RunEnter(bb, r) ==
    IF bb.client = "nil"
    THEN [r EXCEPT !.pc = "returned", !.results = [NoResults EXCEPT !.error = "No client set for Zipf"]]
    ELSE [r EXCEPT !.pc = "running", !.n = 0, !.s = 0,
                   !.operation = IF bb.Operation = "clear" THEN "ClearBit" ELSE "SetBit"]

\* lines 88-89: the row rank, then the column rank, from the one stream:
\* the column draw starts where the row draw left the stream
\* a draw of sampler z on the stream at rnd, with where it started
Started(u, rnd) ==
    [outcome |-> u.outcome, k |-> u.k, rnd |-> u.rnd, tape |-> u.tape, from |-> rnd]

DrawFrom(z, tp, rnd) == { Started(u, rnd) : u \in Uint64(z, tp, rnd) }

RowDraw(bb, tp) == DrawFrom(bb.bitmapRng, tp, bb.rnd)

\* a column sampler that draws from a copy of the source made before the
\* row draw
ColDrawOnCopy(bb, r) == DrawFrom(bb.profileRng, r.tape, bb.rnd)

ColDraw(bb, r) == DrawFrom(bb.profileRng, r.tape, r.rnd)

\* what a draw did to the stream: where it started, where it left it
DrawLog(who, u) == [who |-> who, from |-> u.from, to |-> u.rnd, k |-> u.k]

PairOf(bb, r, c) ==
    [outcome |-> c.outcome, rnd |-> c.rnd, tape |-> c.tape, row |-> r.k, col |-> c.k,
     draws |-> <<DrawLog("row", r)>> \o
               (IF c.outcome = "ok" THEN <<DrawLog("col", c)>> ELSE <<>>)]

PairAfterRow(bb, r) ==
    IF r.outcome # "ok"
    THEN {[outcome |-> r.outcome, rnd |-> r.rnd, tape |-> r.tape,
           row |-> 0, col |-> 0, draws |-> <<>>]}
    ELSE { PairOf(bb, r, c) : c \in ColDraw(bb, r) }

DrawPair(bb, tp) == UNION { PairAfterRow(bb, r) : r \in RowDraw(bb, tp) }

\* lines 91-96, as far as the call of ExecuteQuery: permute both ranks,
\* format the query, hand it to the client
Emit(bb, r, dp) ==
    LET bitmapID == PermNext(bb.bitmapPerm, dp.row)
        profID == PermNext(bb.profilePerm, dp.col)
        query == [operation |-> r.operation,
                  rowID |-> bb.BaseBitmapID + bitmapID,
                  columnID |-> bb.BaseProfileID + profID]
    IN  [r EXCEPT !.pc = "executing", !.calls = @ + 1, !.queries = Append(@, query)]

\* lines 86-96: one iteration of the loop as far as the call of
\* ExecuteQuery.  A nil sampler panics in its Uint64; a sampler whose offset
\* is not finite never leaves it
Iterate(bb, r, dp) ==
    [b |-> [bb EXCEPT !.rnd = dp.rnd],
     tape |-> dp.tape,
     run |-> IF dp.outcome = "panic" THEN [r EXCEPT !.pc = "panicked", !.draws = @ \o dp.draws]
             ELSE IF dp.outcome = "hang" THEN [r EXCEPT !.pc = "hung", !.draws = @ \o dp.draws]
             ELSE Emit(bb, [r EXCEPT !.draws = @ \o dp.draws], dp)]

RunBody(bb, tp, r) == { Iterate(bb, r, dp) : dp \in DrawPair(bb, tp) }

\* the candidates the draws of a Run have rejected
RECURSIVE Rejected(_)
Rejected(ds) ==
    IF ds = <<>> THEN 0
    ELSE (ds[1].to.pos - ds[1].from.pos - 1) + Rejected(Tail(ds))

\* an error recorded without leaving the loop
AfterExecNoAbort(r, execOk) ==
    IF ~execOk
    THEN [r EXCEPT !.pc = "running", !.results = [NoResults EXCEPT !.error = "exec error"],
                   !.n = @ + 1]
    ELSE [r EXCEPT !.pc = "running", !.okCalls = @ + 1, !.s = @ + 1, !.n = @ + 1]

\* lines 96-101 and the loop's n++, from the return of ExecuteQuery: an
\* error ends Run with only the error
AfterExec(r, execOk) ==
    IF ~execOk
    THEN [r EXCEPT !.pc = "returned", !.results = [NoResults EXCEPT !.error = "exec error"]]
    ELSE [r EXCEPT !.pc = "running", !.okCalls = @ + 1, !.s = @ + 1, !.n = @ + 1]

\* lines 103-104: AddToResults and return
RunExit(r) == [r EXCEPT !.pc = "returned", !.results = [@ EXCEPT !.stats = r.s]]

\* the benchmark harness calls Run once after an Init
ZipfRunStart(d) ==
    /\ run[d].pc = "idle"
    /\ initLog[d].pc = "idle"
    /\ run' = [run EXCEPT ![d] = RunEnter(b[d], [IdleRun EXCEPT !.rndAtStart = b[d].rnd])]
    /\ UNCHANGED <<b, initLog, ctxDone, tape>>

\* one iteration of the loop, from the test of n to the call of
\* ExecuteQuery.  What the stream yields where no draw has read it is the
\* generator's choice; the Runs that reject more than MaxRejects candidates
\* are left out.
ZipfRunDraw(d) ==
    /\ run[d].pc = "running"
    /\ run[d].n < b[d].Iterations
    /\ \E out \in RunBody(b[d], tape,
                          [run[d] EXCEPT !.late = @ + (IF ctxDone[d] THEN 1 ELSE 0)]) :
           /\ Rejected(out.run.draws) <= MaxRejects
           /\ b' = [b EXCEPT ![d] = out.b]
           /\ run' = [run EXCEPT ![d] = out.run]
           /\ tape' = out.tape
    /\ UNCHANGED <<initLog, ctxDone>>

\* ExecuteQuery returns; what it answers is the environment's choice
ZipfRunExec(d, execOk) ==
    /\ run[d].pc = "executing"
    /\ run' = [run EXCEPT ![d] = AfterExec(run[d], execOk)]
    /\ UNCHANGED <<b, initLog, ctxDone, tape>>

ZipfRunExit(d) ==
    /\ run[d].pc = "running"
    /\ run[d].n >= b[d].Iterations
    /\ run' = [run EXCEPT ![d] = RunExit(run[d])]
    /\ UNCHANGED <<b, initLog, ctxDone, tape>>

\* the caller cancels the context of the Run in progress (or its deadline
\* passes); a context cancelled before the call is one cancelled before the
\* first iteration
Cancel(d) ==
    /\ ~ctxDone[d]
    /\ run[d].pc \in {"running", "executing"}
    /\ ctxDone' = [ctxDone EXCEPT ![d] = TRUE]
    /\ UNCHANGED <<b, run, initLog, tape>>

(***************************************************************************)
(* Specifications.  Spec: one driver, any configuration, any agent index,  *)
(* any environment.  SpecPair: two drivers with the same seed and row      *)
(* domain side by side, both agent 0, each with samplers rand.NewZipf      *)
(* builds, a client that initializes and an execution that succeeds; the   *)
(* second driver is initialized once.                                      *)
(***************************************************************************)
\* every domain the samplers are not built for, as the row domain and as the
\* column domain, beside a domain whose sampler is built; every operation
\* and every iteration count on one pair of domains whose samplers are built
DomainPairs ==
    { <<dm, Dom(2, FInt(2), Fin(1, 4))>> : dm \in RefusedDomains \cup InvalidDomains }
    \cup { <<Dom(2, FInt(2), Fin(9, 16)), dm>> : dm \in RefusedDomains \cup InvalidDomains }

GoodPair == <<Dom(2, FInt(2), Fin(1, 4)), Dom(2, FInt(2), Fin(9, 16))>>

Configs ==
    { Config(dp[1], dp[2], "set", MaxIter, 0) : dp \in DomainPairs }
    \cup
    { Config(GoodPair[1], GoodPair[2], "set", iters, MaxSeed) : iters \in 0..MaxIter }
    \cup
    { Config(GoodPair[1], GoodPair[2], op, 1, MaxSeed) : op \in Operations }

\* two column domains that reject different stream values
PairColumns == GoodDomains

PairConfigs ==
    { Config(Dom(2, FInt(2), Fin(1, 4)), Dom(2, FInt(2), Fin(1, 4)), "set", iters, MaxSeed) :
        iters \in {1, MaxIter} }

\* the Inits the harness calls on a driver: up to MaxInits, each followed by
\* a Run, on a driver of one iteration or none, one on a driver of more
InitsOf(c) == IF c.Iterations <= 1 THEN MaxInits ELSE 1

\* drivers as json.Unmarshal leaves them: cs[d] is the configuration of
\* driver d, most[d] the number of Inits the harness calls on it
StartWith(cs, most) ==
    /\ b = [d \in DOMAIN cs |-> NewDriver(cs[d])]
    /\ run = [d \in DOMAIN cs |-> IdleRun]
    /\ initLog = [d \in DOMAIN cs |-> NoInit(cs[d].Seed, most[d])]
    /\ ctxDone = [d \in DOMAIN cs |-> FALSE]
    /\ tape = [seed \in Seeds |-> <<>>]

Init == \E c \in Configs : StartWith(<<c>>, <<InitsOf(c)>>)

Step(d) ==
    \/ ZipfInit(d, Agents, HostCounts)
    \/ \E ok \in BOOLEAN : ZipfInitIndex(d, ok)
    \/ \E out \in ClientOutcomes : ZipfClientInit(d, out)
    \/ ZipfRunStart(d)
    \/ ZipfRunDraw(d)
    \/ \E ok \in BOOLEAN : ZipfRunExec(d, ok)
    \/ ZipfRunExit(d)
    \/ Cancel(d)

Next == Step(1)

Spec == Init /\ [][Next]_vars

WithColumn(c, col) ==
    [c EXCEPT !.ProfileIDRange = col.N, !.ProfileExponent = col.exp, !.ProfileRatio = col.ratio]

\* the second driver differs from the first in its column domain at most
InitPair ==
    \E c \in PairConfigs, col \in PairColumns :
        StartWith(<<c, WithColumn(c, col)>>, <<InitsOf(c), 1>>)

\* both drivers are agent 0: they stay on the seed they are configured with
NextPair ==
    \/ \E d \in Drivers : ZipfInit(d, {0}, {1})
    \/ \E d \in Drivers : ZipfInitIndex(d, TRUE)
    \/ \E d \in Drivers : ZipfClientInit(d, "ok")
    \/ \E d \in Drivers : ZipfRunStart(d)
    \/ \E d \in Drivers : ZipfRunDraw(d)
    \/ \E d \in Drivers : ZipfRunExec(d, TRUE)
    \/ \E d \in Drivers : ZipfRunExit(d)

SpecPair == InitPair /\ [][NextPair]_vars

(***************************************************************************)
(* Properties.                                                             *)
(***************************************************************************)
ValidOperation(d) == b[d].Operation \in {"set", "clear"}

\* Run was entered with a client: only then is the operation name chosen
RunLooped(d) == run[d].operation # ""

Min(x, y) == IF x < y THEN x ELSE y

\* C1: when the execution capability fails on the k-th call of a Run
\* (1 <= k <= Iterations), Run has made exactly k-1 successful calls, has
\* returned (so it makes no further call), and its result carries the error.
C1_AbortOnExecError ==
    \A d \in Drivers :
        run[d].results.error = "exec error" =>
            /\ run[d].pc = "returned"
            /\ run[d].calls >= 1 /\ run[d].calls <= b[d].Iterations
            /\ run[d].okCalls = run[d].calls - 1
            /\ run[d].s = run[d].calls - 1
            /\ Len(run[d].queries) = run[d].calls

\* the execution failed on the last of MaxIter calls, after MaxIter - 1 successes
C1_Witness ==
    /\ run[1].results.error = "exec error"
    /\ run[1].calls = MaxIter
    /\ run[1].okCalls = MaxIter - 1

\* C2 as stated: an Init with an operation that is neither "set" nor "clear"
\* fails with an error naming the value, before any sampler is constructed.
C2_Original ==
    \A d \in Drivers :
        (initLog[d].calls > 0 /\ ~ValidOperation(d)) =>
            /\ initLog[d].err = UnsupportedOperation(b[d].Operation)
            /\ initLog[d].built = 0

\* C2 amended: an Init with an operation that is neither "set" nor "clear"
\* fails with an error naming the value, after the source and both
\* permutations (and the samplers) have been built and the seed advanced, but
\* before provisioning, before the client's Init and before any rank is drawn.
C2_FailsBeforeProvisioning ==
    \A d \in Drivers :
        (initLog[d].calls > 0 /\ ~ValidOperation(d)) =>
            /\ initLog[d].outcome = "returned"
            /\ initLog[d].err = UnsupportedOperation(b[d].Operation)
            /\ ~initLog[d].provisioned /\ ~initLog[d].clientInit
            /\ b[d].client = initLog[d].clientBefore
            /\ b[d].Seed = initLog[d].seedIn + initLog[d].agentNum
            /\ b[d].rnd = NewSource(b[d].Seed)
            /\ b[d].bitmapPerm # NIL /\ b[d].profilePerm # NIL
            /\ initLog[d].built >= 3

\* Init failed on operation "flip" with the source, both samplers and both
\* permutations built
C2_Witness ==
    /\ initLog[1].err = UnsupportedOperation("flip")
    /\ initLog[1].built = 5
    /\ b[1].bitmapRng # NIL /\ b[1].profileRng # NIL

\* C3 as stated: Init fails with a configuration error whenever a domain's
\* exponent is <= 0, its ratio is outside (0,1) or its size is < 2; and after
\* an Init that returned no error no rank draw of Run fails or crashes.
C3_Original ==
    \A d \in Drivers :
        /\ (/\ initLog[d].outcome = "returned"
            /\ ~(SpecValid(RowDomain(b[d])) /\ SpecValid(ColDomain(b[d]))))
           => initLog[d].err # NoError
        /\ (initLog[d].outcome = "returned" /\ initLog[d].err = NoError)
           => run[d].pc \notin {"panicked", "hung"}

\* C4 as stated: Run checks the context at the top of every iteration: no
\* iteration starts once the signal is triggered, and a Run stopped by it
\* returns the statistics of the iterations completed.
C4_Original ==
    \A d \in Drivers :
        /\ run[d].late = 0
        /\ (RunLooped(d) /\ run[d].pc = "returned" /\ ctxDone[d]
            /\ run[d].n < b[d].Iterations)
           => run[d].results.stats = run[d].n

\* C5: for a valid operation (and a host to provision on) Init calls the
\* client's Init whether or not provisioning failed, and returns exactly the
\* client's Init's result.
C5_ProvisioningNotFatal ==
    \A d \in Drivers :
        /\ (initLog[d].outcome = "returned" /\ ValidOperation(d))
           => initLog[d].provisioned
        /\ (initLog[d].provisioned /\ initLog[d].pc = "idle")
           => /\ initLog[d].outcome = "returned"
              /\ initLog[d].clientInit
              /\ initLog[d].err = initLog[d].clientErr
              /\ (b[d].client = "set") = (initLog[d].err = NoError)

\* provisioning failed and Init returned the client's success
C5_Witness ==
    /\ initLog[1].outcome = "returned"
    /\ initLog[1].provLogged
    /\ initLog[1].clientInit
    /\ initLog[1].err = NoError
    /\ b[1].client = "set"

\* two drivers given the same configuration at their latest Init
SameRowSetup(d1, d2) ==
    /\ initLog[d1].calls > 0 /\ initLog[d2].calls > 0
    /\ initLog[d1].seedIn = initLog[d2].seedIn
    /\ initLog[d1].agentNum = initLog[d2].agentNum
    /\ RowDomain(b[d1]) = RowDomain(b[d2])
    /\ b[d1].BaseBitmapID = b[d2].BaseBitmapID

SameColSetup(d1, d2) ==
    /\ initLog[d1].calls > 0 /\ initLog[d2].calls > 0
    /\ initLog[d1].seedIn = initLog[d2].seedIn
    /\ initLog[d1].agentNum = initLog[d2].agentNum
    /\ ColDomain(b[d1]) = ColDomain(b[d2])
    /\ b[d1].BaseProfileID = b[d2].BaseProfileID

SameSetup(d1, d2) ==
    /\ SameRowSetup(d1, d2) /\ SameColSetup(d1, d2)
    /\ b[d1].Iterations = b[d2].Iterations
    /\ b[d1].Operation = b[d2].Operation

CommonPrefix(d1, d2) == 1..Min(Len(run[d1].queries), Len(run[d2].queries))

\* C6: two drivers initialized with the same configuration (seed, agent
\* index, domains, iteration count, base ids) and run against executions that
\* succeed emit the same (row id, column id) pairs, position by position.
C6_Deterministic ==
    \A d1, d2 \in Drivers :
        SameSetup(d1, d2) =>
            \A i \in CommonPrefix(d1, d2) : run[d1].queries[i] = run[d2].queries[i]

\* two drivers with the same configuration have both run to the end and
\* emitted MaxIter pairs, one of them after a candidate was rejected
C6_Witness ==
    /\ SameSetup(1, 2)
    /\ Len(run[1].queries) = MaxIter /\ Len(run[2].queries) = MaxIter
    /\ run[1].pc = "returned" /\ run[2].pc = "returned"
    /\ Rejected(run[1].draws) > 0

\* C7 as stated: after any sequence of Init calls the seed of the stream and
\* of the permutations is the configured base seed plus the agent index of
\* the latest Init (row permutation that seed, column permutation that + 1).
C7_Original ==
    \A d \in Drivers :
        initLog[d].calls > 0 =>
            /\ b[d].Seed = initLog[d].baseSeed + initLog[d].agentNum
            /\ b[d].bitmapPerm.seed = initLog[d].baseSeed + initLog[d].agentNum
            /\ b[d].profilePerm.seed = initLog[d].baseSeed + initLog[d].agentNum + 1

\* C8 as stated: for a fixed seed and row domain the row ids Run produces are
\* the same whatever the column domain is, and the column ids are the same
\* whatever the row domain is.
C8_Original ==
    \A d1, d2 \in Drivers :
        /\ SameRowSetup(d1, d2) =>
               \A i \in CommonPrefix(d1, d2) :
                   run[d1].queries[i].rowID = run[d2].queries[i].rowID
        /\ SameColSetup(d1, d2) =>
               \A i \in CommonPrefix(d1, d2) :
                   run[d1].queries[i].columnID = run[d2].queries[i].columnID

\* the draws of a Run form one chain on the driver's one stream
Chained(d) ==
    LET ds == run[d].draws
    IN  /\ ds # <<>> => ds[1].from = run[d].rndAtStart /\ ds[Len(ds)].to = b[d].rnd
        /\ \A i \in 1..Len(ds) :
              /\ ds[i].who = (IF i % 2 = 1 THEN "row" ELSE "col")
              /\ ds[i].to.seed = ds[i].from.seed /\ ds[i].to.pos > ds[i].from.pos
              /\ i < Len(ds) => ds[i + 1].from = ds[i].to

\* C8 amended: row and column draws are coupled: both samplers consume the
\* driver's one stream, each column draw starting where the row draw of its
\* iteration stopped and each row draw where the previous column draw
\* stopped; for a fixed seed and row domain only the first row id of a Run is
\* the same whatever the column domain is.
C8_SharedStream ==
    /\ \A d \in Drivers : Chained(d)
    /\ \A d1, d2 \in Drivers :
           (SameRowSetup(d1, d2) /\ run[d1].queries # <<>> /\ run[d2].queries # <<>>)
           => run[d1].queries[1].rowID = run[d2].queries[1].rowID

\* same seed and row domain, different column domains: the first row ids
\* agree and the second differ
C8_Witness ==
    /\ SameRowSetup(1, 2)
    /\ ColDomain(b[1]) # ColDomain(b[2])
    /\ Len(run[1].queries) >= 2 /\ Len(run[2].queries) >= 2
    /\ run[1].queries[1].rowID = run[2].queries[1].rowID
    /\ run[1].queries[2].rowID # run[2].queries[2].rowID

\* C9 as stated: when every execution call succeeds, a Run with a client
\* makes exactly Iterations calls, each after a row draw and then a column
\* draw, records one sample per call and returns the statistics and no error.
C9_Original ==
    \A d \in Drivers :
        (RunLooped(d) /\ run[d].pc \notin {"running", "executing"}
         /\ run[d].results.error # "exec error") =>
            /\ run[d].pc = "returned"
            /\ run[d].calls = b[d].Iterations
            /\ run[d].s = b[d].Iterations
            /\ run[d].results = [error |-> "", stats |-> b[d].Iterations]
            /\ Len(run[d].draws) = 2 * b[d].Iterations
            /\ Chained(d)

\* C10: a Run on a driver whose client is not set returns a result whose
\* only entry is an error, draws no rank (the stream is where it was),
\* records no sample and issues no execution call.
C10_NoClientNoEffect ==
    \A d \in Drivers :
        (b[d].client = "nil" /\ run[d].pc # "idle" /\ initLog[d].outcome # "panicked") =>
            /\ run[d].pc = "returned"
            /\ run[d].results = [error |-> "No client set for Zipf", stats |-> -1]
            /\ b[d].rnd = run[d].rndAtStart
            /\ run[d].draws = <<>>
            /\ run[d].s = 0 /\ run[d].calls = 0 /\ run[d].queries = <<>>

\* Run returned the error after an Init that failed on the operation and
\* left a seeded stream behind
C10_Witness ==
    /\ run[1].results.error = "No client set for Zipf"
    /\ initLog[1].err.kind = "Unsupported operation"
    /\ b[1].rnd # NIL /\ b[1].bitmapRng # NIL

====
